---- MODULE Spec2Model ----
(***************************************************************************)
(* The per-connection protocol engine of ws/conn.go: the read loop with    *)
(* its acknowledgement handshake and pre-acknowledgement queue, the        *)
(* message dispatcher, the write gate, the request/reply call (ask) and    *)
(* the idempotent Close.  Every goroutine is a thread with a program       *)
(* counter; one action is one atomic access to the connection's shared     *)
(* state (an atomic load/store, a mutex-guarded map access, a channel      *)
(* rendezvous, a transport call).                                          *)
(***************************************************************************)
EXTENDS Integers, Sequences, FiniteSets, TLC

\* ------------------------------------------------------------------ bounds
\* Frames the transport hands to the read loop over the connection's life, in
\* the specification of the handshake, of Close, of Write and of ask.
HandshakeReads == 4
CloseReads == 2
WriteReads == 3
AskReads == 2
\* Largest reading of the clock.
MaxClock == 1

\* The grace of the pre-flight deadline check, time.Second, in clock units.
GraceTolerance == 1

\* ----------------------------------------------------------------- threads
Reader == "r"
Askers == {"a1", "a2"}
Writers == {"w1"}
Closers == {"k1", "k2"}
Connectors == {"cn1"}
WaitConnectors == {"wc1"}
Threads == {Reader} \cup Askers \cup Writers \cup Closers \cup Connectors
             \cup WaitConnectors

\* ------------------------------------------------------------------- bytes
ackBinary == <<"a", "c", "k">>
ackOKBinary == <<"a", "c", "k", "_", "o", "k">>

\* bytes.HasPrefix
HasPrefix(s, p) == Len(s) >= Len(p) /\ SubSeq(s, 1, Len(p)) = p

\* b[len(ackBinary):]
AckSuffixWhole(s) == s
AckSuffix(s) == SubSeq(s, Len(ackBinary) + 1, Len(s))

\* ---------------------------------------------------------------- messages
OnNamespaceConnect == "_OnNamespaceConnect"
OnNamespaceDisconnect == "_OnNamespaceDisconnect"
OnRoomJoin == "_OnRoomJoin"
OnRoomLeave == "_OnRoomLeave"

NoMessage ==
    [wait |-> "", Namespace |-> "", Room |-> "", Event |-> "", Err |-> "",
     isInvalid |-> FALSE]

Msg(w, ns, room, ev, err) ==
    [wait |-> w, Namespace |-> ns, Room |-> room, Event |-> ev, Err |-> err,
     isInvalid |-> FALSE]

isConnect(msg) == msg.Event = OnNamespaceConnect
isDisconnect(msg) == msg.Event = OnNamespaceDisconnect
isRoomJoin(msg) == msg.Event = OnRoomJoin
isRoomLeft(msg) == msg.Event = OnRoomLeave

\* The codec: a message frame is the marker "M" and the five fields.
serializeMessage(msg) ==
    <<"M", msg.wait, msg.Namespace, msg.Room, msg.Event, msg.Err>>

deserializeMessage(bytes) ==
    IF Len(bytes) = 6 /\ bytes[1] = "M"
    THEN Msg(bytes[2], bytes[3], bytes[4], bytes[5], bytes[6])
    ELSE [NoMessage EXCEPT !.isInvalid = TRUE]

\* The errors an event handler returns: none, an ordinary one, a manual close.
FireErrors == {"", "err", "manual"}
isManualCloseError(err) == err = "manual"

\* ------------------------------------------------------------------- state
VARIABLES
    role,             \* "client" | "server" (c.server == nil for a client)
    id,               \* c.id, bytes
    once,             \* *c.once
    acknowledged,     \* *c.acknowledged
    waitingMessages,  \* c.waitingMessages: pairs <<wait-token, ask call owning the channel>>
    nsConnected,      \* c.connectedNamespaces: the namespaces with a session
    rooms,            \* the joined rooms of each namespace session
    sockClosed,       \* c.socket.NetConn().Close() has run
    teardown,         \* how often each teardown action of Close has run
    notifyG,          \* the goroutine Close starts: "none" | "spawned" | "done"
    serverDisconnect, \* connections sent on c.server.disconnect
    closeReturned,    \* some Close call has returned
    now,              \* the last reading of the clock
    pc,               \* each thread's position
    cret,             \* where each thread continues when its Close returns
    wret,             \* where each thread continues when its Write returns
    wmsg,             \* the message of each thread's Write call
    wres,             \* the result of each thread's last Write call
    wio,              \* whether each thread's last Write call reached WriteText
    werr,             \* what the transport answered each thread's last WriteText
    wseen,            \* that Write call: whether a Close had returned when it was
                      \* made (after), what each test found ("-" if not made)
    b,                \* startReader: the frame just read
    nread,            \* startReader: frames read so far (the index of b)
    queue,            \* startReader: the pre-acknowledgement queue
    qi,               \* handleQueue: the position of its range loop
    hmsg,             \* handleMessage: its argument
    hret,             \* handleMessage: its caller, "r_drain" | "r_live"
    hch,              \* handleMessage: the channel found in the registry
    ferr,             \* handleMessage: the error fireEvent returned
    handled,          \* the indices of the frames passed to handleMessage, in order
    drains,           \* how many times handleQueue has run to its end
    trace,            \* the handshake effects of the frame being processed
    tok,              \* ask: msg.wait of each call
    ctx,              \* ask: the context of each call
    amsg,             \* ask: the request of each call
    recv,             \* ask: the message received on the call's channel
    result,           \* ask: what the call returned, [kind, msg, err]
    wroteAt,          \* ask: frames read when the call saw its Write succeed
    env               \* the inputs: [frames, reads, ctxs, askMsgs, writeMsgs]

connVars == <<role, id, once, acknowledged, waitingMessages, sockClosed>>
dirVars == <<nsConnected, rooms>>
closeVars == <<teardown, notifyG, serverDisconnect, closeReturned>>
callVars == <<cret, wret, wmsg, wres, wio, werr, wseen>>
readerVars == <<b, nread, queue, qi, hmsg, hret, hch, ferr, handled, drains, trace>>
askVars == <<tok, ctx, amsg, recv, result, wroteAt>>

vars ==
    <<role, id, once, acknowledged, waitingMessages, nsConnected, rooms,
      sockClosed, teardown, notifyG, serverDisconnect, closeReturned, now, pc,
      cret, wret, wmsg, wres, wio, werr, wseen, b, nread, queue, qi, hmsg, hret, hch,
      ferr, handled, drains, trace, tok, ctx, amsg, recv, result, wroteAt, env>>

IsClient == role = "client"
isAcknowledged == acknowledged > 0
IsClosed == once > 0

Namespaces == {"/chat"}
Rooms == {"general"}
TeardownActions == {"closeCh", "force", "clear", "ack", "notify", "sock"}

\* A context: one that never ends (nil, context.TODO()), one its owner may
\* cancel, one with a deadline d.
Background == [kind |-> "never", d |-> 0]
Cancellable == [kind |-> "cancel", d |-> 0]
WithDeadline(d) == [kind |-> "deadline", d |-> d]

NoResult == [kind |-> "none", msg |-> NoMessage, err |-> ""]
NotSeen == [after |-> FALSE, closed |-> "-", ns |-> "-", room |-> "-"]

\* newConn, and the identity the accepting side gave a server connection.
InitConn(roles, inputs, active) ==
    /\ role \in roles
    /\ id = IF role = "server" THEN <<"7">> ELSE <<>>
    /\ once = 0
    /\ acknowledged = 0
    /\ waitingMessages = {}
    /\ nsConnected = {}
    /\ rooms = [n \in Namespaces |-> {}]
    /\ sockClosed = FALSE
    /\ teardown = [x \in TeardownActions |-> 0]
    /\ notifyG = "none"
    /\ serverDisconnect = 0
    /\ closeReturned = FALSE
    /\ now = 0
    /\ pc = [t \in Threads |->
               IF t \notin active THEN "off"
               ELSE IF t = Reader THEN "r_start"
               ELSE IF t \in Askers THEN "a_call"
               ELSE IF t \in Writers THEN "w_call"
               ELSE IF t \in Connectors THEN "cn_poll"
               ELSE IF t \in WaitConnectors THEN "wc_poll"
               ELSE "c_cas"]
    /\ cret = [t \in Threads |-> "done"]
    /\ wret = [t \in Threads |-> "done"]
    /\ wmsg = [t \in Threads |-> NoMessage]
    /\ wres = [t \in Threads |-> FALSE]
    /\ wio = [t \in Threads |-> FALSE]
    /\ werr = [t \in Threads |-> "none"]
    /\ wseen = [t \in Threads |-> NotSeen]
    /\ b = <<>>
    /\ nread = 0
    /\ queue = <<>>
    /\ qi = 0
    /\ hmsg = NoMessage
    /\ hret = "r_live"
    /\ hch = "a1"
    /\ ferr = ""
    /\ handled = <<>>
    /\ drains = 0
    /\ trace = <<>>
    /\ tok = [a \in Askers |-> ""]
    /\ ctx = [a \in Askers |-> Background]
    /\ amsg = [a \in Askers |-> NoMessage]
    /\ recv = [a \in Askers |-> NoMessage]
    /\ result = [a \in Askers |-> NoResult]
    /\ wroteAt = [a \in Askers |-> 0]
    /\ env = inputs

\* ------------------------------------------------------------------- Close
\* atomic.CompareAndSwapUint32(c.once, 0, 1): whether the swap happens.
CompareAndSwapOnceAlways == TRUE
CompareAndSwapOnce == once = 0

Did(x) == teardown' = [teardown EXCEPT ![x] = @ + 1]

CloseCAS(t) ==
    /\ pc[t] = "c_cas"
    /\ IF CompareAndSwapOnce
       THEN /\ once' = 1
            /\ pc' = [pc EXCEPT ![t] = "c_closeCh"]
            /\ UNCHANGED closeReturned
       ELSE /\ pc' = [pc EXCEPT ![t] = cret[t]]
            /\ closeReturned' = TRUE
            /\ UNCHANGED once
    /\ UNCHANGED <<role, id, acknowledged, waitingMessages, sockClosed, dirVars,
                   teardown, notifyG, serverDisconnect, now, callVars,
                   readerVars, askVars, env>>

\* close(c.closeCh)
CloseCloseCh(t) ==
    /\ pc[t] = "c_closeCh"
    /\ Did("closeCh")
    /\ pc' = [pc EXCEPT ![t] = "c_force"]
    /\ UNCHANGED <<connVars, dirVars, notifyG, serverDisconnect, closeReturned,
                   now, callVars, readerVars, askVars, env>>

\* c.connectedNamespaces.forceDisconnectAll()
CloseForceDisconnectAll(t) ==
    /\ pc[t] = "c_force"
    /\ Did("force")
    /\ nsConnected' = {}
    /\ rooms' = [n \in Namespaces |-> {}]
    /\ pc' = [pc EXCEPT ![t] = "c_clear"]
    /\ UNCHANGED <<connVars, notifyG, serverDisconnect, closeReturned, now,
                   callVars, readerVars, askVars, env>>

\* for wait := range c.waitingMessages { delete(c.waitingMessages, wait) }
RegistryClearNothing(reg) == reg
RegistryClear(reg) == {}

\* for wait := range c.waitingMessages { delete(...) }, under the mutex
CloseClearWaiting(t) ==
    /\ pc[t] = "c_clear"
    /\ Did("clear")
    /\ waitingMessages' = RegistryClear(waitingMessages)
    /\ pc' = [pc EXCEPT ![t] = "c_ack"]
    /\ UNCHANGED <<role, id, once, acknowledged, sockClosed, dirVars, notifyG,
                   serverDisconnect, closeReturned, now, callVars, readerVars,
                   askVars, env>>

\* atomic.StoreUint32(c.acknowledged, 0)
CloseResetAcknowledged(t) ==
    /\ pc[t] = "c_ack"
    /\ Did("ack")
    /\ acknowledged' = 0
    /\ pc' = [pc EXCEPT ![t] = "c_go"]
    /\ UNCHANGED <<role, id, once, waitingMessages, sockClosed, dirVars, notifyG,
                   serverDisconnect, closeReturned, now, callVars, readerVars,
                   askVars, env>>

\* go func() { ... }()
CloseSpawnNotify(t) ==
    /\ pc[t] = "c_go"
    /\ Did("notify")
    /\ notifyG' = "spawned"
    /\ pc' = [pc EXCEPT ![t] = "c_sock"]
    /\ UNCHANGED <<connVars, dirVars, serverDisconnect, closeReturned, now,
                   callVars, readerVars, askVars, env>>

\* c.socket.NetConn().Close(), and Close returns
CloseSocket(t) ==
    /\ pc[t] = "c_sock"
    /\ Did("sock")
    /\ sockClosed' = TRUE
    /\ closeReturned' = TRUE
    /\ pc' = [pc EXCEPT ![t] = cret[t]]
    /\ UNCHANGED <<role, id, once, acknowledged, waitingMessages, dirVars,
                   notifyG, serverDisconnect, now, callVars, readerVars, askVars,
                   env>>

\* the goroutine: if !c.IsClient() { c.server.disconnect <- c }
NotifyServer ==
    /\ notifyG = "spawned"
    /\ notifyG' = "done"
    /\ serverDisconnect' = IF IsClient THEN serverDisconnect ELSE serverDisconnect + 1
    /\ UNCHANGED <<connVars, dirVars, teardown, closeReturned, now, pc, callVars,
                   readerVars, askVars, env>>

CloseStep(t) ==
    \/ CloseCAS(t)
    \/ CloseCloseCh(t)
    \/ CloseForceDisconnectAll(t)
    \/ CloseClearWaiting(t)
    \/ CloseResetAcknowledged(t)
    \/ CloseSpawnNotify(t)
    \/ CloseSocket(t)

\* ------------------------------------------------------- the Wait Registry
\* _, ok := c.waitingMessages[w]
WaitingNever(w) == FALSE
Waiting(w) == \E e \in waitingMessages : e[1] = w
\* c.waitingMessages[w]
ChannelOf(w) == (CHOOSE e \in waitingMessages : e[1] = w)[2]
\* c.waitingMessages[w] = ch
RegistryPut(reg, w, ch) == {e \in reg : e[1] # w} \cup {<<w, ch>>}
\* delete(c.waitingMessages, w)
RegistryDeleteNothing(reg, w) == reg
RegistryDelete(reg, w) == {e \in reg : e[1] # w}

\* ---------------------------------------------------------- the read loop
Effect(e, v) == [e |-> e, v |-> v]

\* if c.IsClosed() { return }; defer c.Close()
ReaderStart ==
    /\ pc[Reader] = "r_start"
    /\ pc' = [pc EXCEPT ![Reader] = IF IsClosed THEN "done" ELSE "r_read"]
    /\ UNCHANGED <<connVars, dirVars, closeVars, now, callVars, readerVars,
                   askVars, env>>

\* c.socket.ReadText fails: return, and the deferred Close runs
ReadError ==
    /\ pc[Reader] = "r_read"
    /\ pc' = [pc EXCEPT ![Reader] = "c_cas"]
    /\ cret' = [cret EXCEPT ![Reader] = "done"]
    /\ UNCHANGED <<connVars, dirVars, closeVars, now, wret, wmsg, wres, wio, werr,
                   wseen, readerVars, askVars, env>>

\* c.socket.ReadText returns a frame
ReadFrame ==
    /\ pc[Reader] = "r_read"
    /\ ~sockClosed
    /\ nread < env.reads
    /\ \E f \in env.frames :
         /\ b' = f
         /\ nread' = nread + 1
         /\ trace' = <<>>
         /\ pc' = [pc EXCEPT ![Reader] = "r_chk1"]
    /\ UNCHANGED <<connVars, dirVars, closeVars, now, callVars, queue, qi, hmsg,
                   hret, hch, ferr, handled, drains, askVars, env>>

\* len(b) == len(ackBinary)
IsBareTagNever(bytes) == FALSE
IsBareTag(bytes) == Len(bytes) = Len(ackBinary)

\* if !c.isAcknowledged() && bytes.HasPrefix(b, ackBinary) { ... } and, past
\* it, deserializeMessage and the isInvalid test
ReaderCheckHandshake ==
    /\ pc[Reader] = "r_chk1"
    /\ pc' = [pc EXCEPT ![Reader] =
                IF ~isAcknowledged /\ HasPrefix(b, ackBinary)
                THEN IF IsClient THEN "r_id"
                     ELSE IF IsBareTag(b) THEN "r_offer" ELSE "r_ack"
                ELSE IF deserializeMessage(b).isInvalid THEN "r_read"
                     ELSE "r_chk2"]
    /\ UNCHANGED <<connVars, dirVars, closeVars, now, callVars, readerVars,
                   askVars, env>>

\* id := string(b[len(ackBinary):]); c.id = id
ClientAdoptID ==
    /\ pc[Reader] = "r_id"
    /\ id' = AckSuffix(b)
    /\ trace' = Append(trace, Effect("id", AckSuffix(b)))
    /\ pc' = [pc EXCEPT ![Reader] = "r_ack"]
    /\ UNCHANGED <<role, once, acknowledged, waitingMessages, sockClosed,
                   dirVars, closeVars, now, callVars, b, nread, queue, qi, hmsg,
                   hret, hch, ferr, handled, drains, askVars, env>>

\* atomic.StoreUint32(c.acknowledged, 1)
ReaderAcknowledge ==
    /\ pc[Reader] = "r_ack"
    /\ acknowledged' = 1
    /\ trace' = Append(trace, Effect("ack", <<>>))
    /\ pc' = [pc EXCEPT ![Reader] = IF IsClient THEN "r_ackok" ELSE "r_drain"]
    /\ UNCHANGED <<role, id, once, waitingMessages, sockClosed, dirVars,
                   closeVars, now, callVars, b, nread, queue, qi, hmsg, hret,
                   hch, ferr, handled, drains, askVars, env>>

\* c.socket.WriteText(ackOKBinary, c.writeTimeout), its error dropped
ClientWriteAckOK ==
    /\ pc[Reader] = "r_ackok"
    /\ trace' = Append(trace, Effect("write", ackOKBinary))
    /\ pc' = [pc EXCEPT ![Reader] = "r_drain"]
    /\ UNCHANGED <<connVars, dirVars, closeVars, now, callVars, b, nread, queue,
                   qi, hmsg, hret, hch, ferr, handled, drains, askVars, env>>

\* c.socket.WriteText(append(ackBinary, []byte(c.id)...), c.writeTimeout)
ServerOfferID ==
    /\ pc[Reader] = "r_offer"
    /\ trace' = Append(trace, Effect("write", ackBinary \o id))
    /\ pc' = [pc EXCEPT ![Reader] = "r_read"]
    /\ UNCHANGED <<connVars, dirVars, closeVars, now, callVars, b, nread, queue,
                   qi, hmsg, hret, hch, ferr, handled, drains, askVars, env>>

\* queue = append(queue, &msg)
EnqueueFront(q, e) == <<e>> \o q
Enqueue(q, e) == Append(q, e)

\* handleQueue: one turn of for _, msg := range queue, and queue = nil past it
HandleQueue ==
    /\ pc[Reader] = "r_drain"
    /\ IF qi < Len(queue)
       THEN /\ qi' = qi + 1
            /\ hmsg' = queue[qi + 1].msg
            /\ hret' = "r_drain"
            /\ handled' = Append(handled, queue[qi + 1].idx)
            /\ pc' = [pc EXCEPT ![Reader] = "h_lookup"]
            /\ UNCHANGED <<queue, drains>>
       ELSE /\ queue' = <<>>
            /\ qi' = 0
            /\ drains' = drains + 1
            /\ pc' = [pc EXCEPT ![Reader] = "r_read"]
            /\ UNCHANGED <<hmsg, hret, handled>>
    /\ UNCHANGED <<connVars, dirVars, closeVars, now, callVars, b, nread, hch,
                   ferr, trace, askVars, env>>

\* if !c.isAcknowledged() { queue = append(queue, &msg); continue }
\* if !c.handleMessage(msg) { return }
ReaderQueueOrHandle ==
    /\ pc[Reader] = "r_chk2"
    /\ IF ~isAcknowledged
       THEN /\ queue' = Enqueue(queue, [idx |-> nread, msg |-> deserializeMessage(b)])
            /\ pc' = [pc EXCEPT ![Reader] = "r_read"]
            /\ UNCHANGED <<hmsg, hret, handled>>
       ELSE /\ hmsg' = deserializeMessage(b)
            /\ hret' = "r_live"
            /\ handled' = Append(handled, nread)
            /\ pc' = [pc EXCEPT ![Reader] = "h_lookup"]
            /\ UNCHANGED queue
    /\ UNCHANGED <<connVars, dirVars, closeVars, now, callVars, b, nread, qi,
                   hch, ferr, drains, trace, askVars, env>>

\* What the caller of handleMessage does with its result: handleQueue drops
\* it, the loop returns (and the deferred Close runs) on false.
AfterHandle(ok) ==
    IF hret = "r_drain" THEN "r_drain"
    ELSE IF ok THEN "r_read" ELSE "c_cas"

\* ------------------------------------------------------------ handleMessage
ControlEvents == {OnNamespaceConnect, OnNamespaceDisconnect, OnRoomJoin, OnRoomLeave}

\* if msg.wait != "" { ch, ok := c.waitingMessages[msg.wait]; ... }
HandleLookup ==
    /\ pc[Reader] = "h_lookup"
    /\ IF hmsg.wait # "" /\ Waiting(hmsg.wait)
       THEN /\ hch' = ChannelOf(hmsg.wait)
            /\ pc' = [pc EXCEPT ![Reader] = "h_send"]
       ELSE /\ pc' = [pc EXCEPT ![Reader] = "h_route"]
            /\ UNCHANGED hch
    /\ UNCHANGED <<connVars, dirVars, closeVars, now, callVars, b, nread, queue,
                   qi, hmsg, hret, ferr, handled, drains, trace, askVars, env>>

\* ch <- msg; return true: the rendezvous with the ask call receiving on ch
HandleSend ==
    /\ pc[Reader] = "h_send"
    /\ pc[hch] = "a_select"
    /\ recv' = [recv EXCEPT ![hch] = hmsg]
    /\ pc' = [pc EXCEPT ![Reader] = AfterHandle(TRUE), ![hch] = "a_recv"]
    /\ cret' = [cret EXCEPT ![Reader] = "done"]
    /\ UNCHANGED <<connVars, dirVars, closeVars, now, wret, wmsg, wres, wio, werr,
                   wseen, readerVars, tok, ctx, amsg, result, wroteAt, env>>

\* switch msg.Event: replyConnect, replyDisconnect, replyRoomJoin,
\* replyRoomLeave of the session directory
HandleControl ==
    /\ pc[Reader] = "h_route"
    /\ hmsg.Event \in ControlEvents
    /\ nsConnected' =
         IF isConnect(hmsg) THEN nsConnected \cup {hmsg.Namespace}
         ELSE IF isDisconnect(hmsg) THEN nsConnected \ {hmsg.Namespace}
         ELSE nsConnected
    /\ rooms' =
         IF isDisconnect(hmsg) THEN [rooms EXCEPT ![hmsg.Namespace] = {}]
         ELSE IF hmsg.Namespace \notin nsConnected THEN rooms
         ELSE IF isRoomJoin(hmsg) THEN [rooms EXCEPT ![hmsg.Namespace] = @ \cup {hmsg.Room}]
         ELSE IF isRoomLeft(hmsg) THEN [rooms EXCEPT ![hmsg.Namespace] = @ \ {hmsg.Room}]
         ELSE rooms
    /\ pc' = [pc EXCEPT ![Reader] = AfterHandle(TRUE)]
    /\ cret' = [cret EXCEPT ![Reader] = "done"]
    /\ UNCHANGED <<connVars, closeVars, now, wret, wmsg, wres, wio, werr, wseen,
                   readerVars, askVars, env>>

\* default: ns := c.connectedNamespaces.get(msg.Namespace); if ns != nil {
\* err := ns.events.fireEvent(ns, msg); if err != nil { msg.Err = err;
\* c.Write(msg) ... } }
HandleFire ==
    /\ pc[Reader] = "h_route"
    /\ hmsg.Event \notin ControlEvents
    /\ IF hmsg.Namespace \notin nsConnected
       THEN /\ pc' = [pc EXCEPT ![Reader] = AfterHandle(TRUE)]
            /\ cret' = [cret EXCEPT ![Reader] = "done"]
            /\ UNCHANGED <<ferr, wret, wmsg, wio, werr, wseen>>
       ELSE \E err \in FireErrors :
            /\ ferr' = err
            /\ IF err = ""
               THEN /\ pc' = [pc EXCEPT ![Reader] = AfterHandle(TRUE)]
                    /\ cret' = [cret EXCEPT ![Reader] = "done"]
                    /\ UNCHANGED <<wret, wmsg, wio, werr, wseen>>
               ELSE /\ pc' = [pc EXCEPT ![Reader] = "w_chk"]
                    /\ wret' = [wret EXCEPT ![Reader] = "h_after"]
                    /\ wmsg' = [wmsg EXCEPT ![Reader] = [hmsg EXCEPT !.Err = err]]
                    /\ wio' = [wio EXCEPT ![Reader] = FALSE]
                    /\ werr' = [werr EXCEPT ![Reader] = "none"]
                    /\ wseen' = [wseen EXCEPT ![Reader] = [NotSeen EXCEPT !.after = closeReturned]]
                    /\ UNCHANGED cret
    /\ UNCHANGED <<connVars, dirVars, closeVars, now, wres, b, nread,
                   queue, qi, hmsg, hret, hch, handled, drains, trace, askVars, env>>

\* if isManualCloseError(err) { return false }; return true
HandleAfterWrite ==
    /\ pc[Reader] = "h_after"
    /\ pc' = [pc EXCEPT ![Reader] = AfterHandle(~isManualCloseError(ferr))]
    /\ cret' = [cret EXCEPT ![Reader] = "done"]
    /\ UNCHANGED <<connVars, dirVars, closeVars, now, wret, wmsg, wres, wio, werr,
                   wseen, readerVars, askVars, env>>

\* ------------------------------------------------------------------- Write
\* c.socket.WriteText: nil, a close-class error, another error
\* What the transport can answer a write: not success once the socket is closed.
WriteOutcomes == IF sockClosed THEN env.outcomes \ {"ok"} ELSE env.outcomes
IsCloseError(o) == o = "close"

\* Write returns v to its caller
WriteReturn(t, v) ==
    /\ wres' = [wres EXCEPT ![t] = v]
    /\ pc' = [pc EXCEPT ![t] = wret[t]]

Seen(t, test, found) == wseen' = [wseen EXCEPT ![t][test] = IF found THEN "ok" ELSE "bad"]

\* if !msg.isConnect() && !msg.isDisconnect()
NeedsNamespace(msg) == ~isConnect(msg) /\ ~isDisconnect(msg)
\* if msg.Room != "" && !msg.isRoomJoin() && !msg.isRoomLeft()
NeedsRoomNever(msg) == FALSE
NeedsRoom(msg) == msg.Room # "" /\ ~isRoomJoin(msg) /\ ~isRoomLeft(msg)

\* if c.IsClosed() { return false }
WriteCheckClosed(t) ==
    /\ pc[t] = "w_chk"
    /\ Seen(t, "closed", once = 0)
    /\ IF IsClosed THEN WriteReturn(t, FALSE)
       ELSE /\ pc' = [pc EXCEPT ![t] = IF NeedsNamespace(wmsg[t]) THEN "w_ns" ELSE "w_io"]
            /\ UNCHANGED wres
    /\ UNCHANGED <<connVars, dirVars, closeVars, now, cret, wret, wmsg, wio, werr,
                   readerVars, askVars, env>>

\* ns := c.connectedNamespaces.get(msg.Namespace); if ns == nil { return false }
WriteCheckNamespace(t) ==
    /\ pc[t] = "w_ns"
    /\ Seen(t, "ns", wmsg[t].Namespace \in nsConnected)
    /\ IF wmsg[t].Namespace \notin nsConnected THEN WriteReturn(t, FALSE)
       ELSE /\ pc' = [pc EXCEPT ![t] = IF NeedsRoom(wmsg[t]) THEN "w_room" ELSE "w_io"]
            /\ UNCHANGED wres
    /\ UNCHANGED <<connVars, dirVars, closeVars, now, cret, wret, wmsg, wio, werr,
                   readerVars, askVars, env>>

\* _, ok := ns.rooms[msg.Room]; if !ok { return false }
WriteCheckRoom(t) ==
    /\ pc[t] = "w_room"
    /\ Seen(t, "room", wmsg[t].Room \in rooms[wmsg[t].Namespace])
    /\ IF wmsg[t].Room \notin rooms[wmsg[t].Namespace] THEN WriteReturn(t, FALSE)
       ELSE /\ pc' = [pc EXCEPT ![t] = "w_io"]
            /\ UNCHANGED wres
    /\ UNCHANGED <<connVars, dirVars, closeVars, now, cret, wret, wmsg, wio, werr,
                   readerVars, askVars, env>>

\* if IsCloseError(err) { c.Close() }
CloseOnErrorNever(o) == FALSE
CloseOnError(o) == IsCloseError(o)

\* err := c.socket.WriteText(serializeMessage(nil, msg), c.writeTimeout)
\* if err != nil { if IsCloseError(err) { c.Close() }; return false }
WriteText(t) ==
    /\ pc[t] = "w_io"
    /\ wio' = [wio EXCEPT ![t] = TRUE]
    /\ \E o \in WriteOutcomes :
         /\ werr' = [werr EXCEPT ![t] = o]
         /\ IF o = "ok" THEN WriteReturn(t, TRUE) /\ UNCHANGED cret
            ELSE IF CloseOnError(o)
            THEN /\ wres' = [wres EXCEPT ![t] = FALSE]
                 /\ pc' = [pc EXCEPT ![t] = "c_cas"]
                 /\ cret' = [cret EXCEPT ![t] = wret[t]]
            ELSE WriteReturn(t, FALSE) /\ UNCHANGED cret
    /\ UNCHANGED <<connVars, dirVars, closeVars, now, wret, wmsg, wseen,
                   readerVars, askVars, env>>

\* A caller of Write other than ask and the read loop.
WriterCall(t) ==
    /\ pc[t] = "w_call"
    /\ \E m \in env.writeMsgs : wmsg' = [wmsg EXCEPT ![t] = m]
    /\ wret' = [wret EXCEPT ![t] = "done"]
    /\ wio' = [wio EXCEPT ![t] = FALSE]
    /\ werr' = [werr EXCEPT ![t] = "none"]
    /\ wseen' = [wseen EXCEPT ![t] = [NotSeen EXCEPT !.after = closeReturned]]
    /\ pc' = [pc EXCEPT ![t] = "w_chk"]
    /\ UNCHANGED <<connVars, dirVars, closeVars, now, cret, wres, readerVars,
                   askVars, env>>

\* --------------------------------------------------------------------- ask
\* strconv.FormatInt(now, 10), "client_" before it for a client
FormatToken(r, t) == IF r = "client" THEN "client_" \o ToString(t) ELSE ToString(t)

\* deadline.Before(time.Now().Add(-1 * time.Second))
DeadlineBeforeNever(d, t) == FALSE
DeadlineBefore(d, t) == d < t - GraceTolerance

Returned(kind, msg, err) == [kind |-> kind, msg |-> msg, err |-> err]

\* ask, to the registration: the IsClosed test, the token from the clock, the
\* pre-flight test of the deadline.  t1 and t2 are the two readings of
\* time.Now().
AskStart(a) ==
    /\ pc[a] = "a_call"
    /\ \E c \in env.ctxs[a], m \in env.askMsgs[a], t1 \in now..MaxClock :
       \E t2 \in t1..MaxClock :
         /\ ctx' = [ctx EXCEPT ![a] = c]
         /\ amsg' = [amsg EXCEPT ![a] = m]
         /\ IF IsClosed
            THEN /\ result' = [result EXCEPT ![a] = Returned("closed", m, "write closed")]
                 /\ pc' = [pc EXCEPT ![a] = "done"]
                 /\ UNCHANGED <<tok, now>>
            ELSE /\ tok' = [tok EXCEPT ![a] = FormatToken(role, t1)]
                 /\ now' = IF c.kind = "deadline" THEN t2 ELSE t1
                 /\ IF c.kind = "deadline" /\ DeadlineBefore(c.d, t2)
                    THEN /\ result' = [result EXCEPT ![a] =
                                         Returned("deadline", NoMessage, "deadline exceeded")]
                         /\ pc' = [pc EXCEPT ![a] = "done"]
                    ELSE /\ pc' = [pc EXCEPT ![a] = "a_reg"]
                         /\ UNCHANGED result
    /\ UNCHANGED <<connVars, dirVars, closeVars, callVars, readerVars, recv,
                   wroteAt, env>>

\* ch := make(chan Message); c.waitingMessages[msg.wait] = ch; c.Write(msg)
AskRegister(a) ==
    /\ pc[a] = "a_reg"
    /\ waitingMessages' = RegistryPut(waitingMessages, tok[a], a)
    /\ wmsg' = [wmsg EXCEPT ![a] = [amsg[a] EXCEPT !.wait = tok[a]]]
    /\ wret' = [wret EXCEPT ![a] = "a_wrote"]
    /\ wio' = [wio EXCEPT ![a] = FALSE]
    /\ werr' = [werr EXCEPT ![a] = "none"]
    /\ wseen' = [wseen EXCEPT ![a] = [NotSeen EXCEPT !.after = closeReturned]]
    /\ pc' = [pc EXCEPT ![a] = "w_chk"]
    /\ UNCHANGED <<role, id, once, acknowledged, sockClosed, dirVars, closeVars,
                   now, cret, wres, readerVars, askVars, env>>

\* if !c.Write(msg) { return Message{}, ErrWrite }
AskWritten(a) ==
    /\ pc[a] = "a_wrote"
    /\ IF wres[a]
       THEN /\ pc' = [pc EXCEPT ![a] = "a_select"]
            /\ wroteAt' = [wroteAt EXCEPT ![a] = nread]
            /\ UNCHANGED result
       ELSE /\ pc' = [pc EXCEPT ![a] = "done"]
            /\ result' = [result EXCEPT ![a] = Returned("errwrite", NoMessage, "write closed")]
            /\ UNCHANGED wroteAt
    /\ UNCHANGED <<connVars, dirVars, closeVars, now, callVars, readerVars, tok,
                   ctx, amsg, recv, env>>

\* case <-ctx.Done(): return Message{}, ctx.Err()
AskContextDone(a) ==
    /\ pc[a] = "a_select"
    /\ ctx[a].kind # "never"
    /\ now' = IF ctx[a].kind = "deadline" /\ ctx[a].d > now THEN ctx[a].d ELSE now
    /\ result' = [result EXCEPT ![a] = Returned("ctx", NoMessage, "context done")]
    /\ pc' = [pc EXCEPT ![a] = "done"]
    /\ UNCHANGED <<connVars, dirVars, closeVars, callVars, readerVars, tok, ctx,
                   amsg, recv, wroteAt, env>>

\* case receive := <-ch: delete(c.waitingMessages, receive.wait);
\* return receive, receive.Err
AskReceived(a) ==
    /\ pc[a] = "a_recv"
    /\ waitingMessages' = RegistryDelete(waitingMessages, recv[a].wait)
    /\ result' = [result EXCEPT ![a] = Returned("reply", recv[a], recv[a].Err)]
    /\ pc' = [pc EXCEPT ![a] = "done"]
    /\ UNCHANGED <<role, id, once, acknowledged, sockClosed, dirVars, closeVars,
                   now, callVars, readerVars, tok, ctx, amsg, recv, wroteAt, env>>

\* WriteAndWait: what it returns for what ask returned
WriteAndWait(r) ==
    IF r.msg.Err = "" /\ r.err # ""
    THEN [NoMessage EXCEPT !.Err = r.err]
    ELSE r.msg

\* ------------------------------------------------- Connect and WaitConnect
\* Connect: if !c.IsClient() { for !c.isAcknowledged() { ... } }, and past the
\* loop the call of askConnect
ConnectPoll(t) ==
    /\ pc[t] = "cn_poll"
    /\ pc' = [pc EXCEPT ![t] = IF IsClient \/ isAcknowledged THEN "done" ELSE "cn_sleep"]
    /\ UNCHANGED <<connVars, dirVars, closeVars, now, callVars, readerVars,
                   askVars, env>>

\* time.Sleep(syncWaitDur) in the loop of Connect
ConnectSleep(t) ==
    /\ pc[t] = "cn_sleep"
    /\ pc' = [pc EXCEPT ![t] = "cn_poll"]
    /\ UNCHANGED <<connVars, dirVars, closeVars, now, callVars, readerVars,
                   askVars, env>>

\* WaitConnect under a context that never ends: the default branch of the
\* select. ns is kept once found ("wc_poll_ns"); the call returns when ns is
\* found and the connection is acknowledged.
WaitConnectPoll(t) ==
    /\ pc[t] \in {"wc_poll", "wc_poll_ns"}
    /\ LET found == pc[t] = "wc_poll_ns" \/ "/chat" \in nsConnected
       IN pc' = [pc EXCEPT ![t] =
                   IF found /\ isAcknowledged THEN "done"
                   ELSE IF found THEN "wc_sleep_ns" ELSE "wc_sleep"]
    /\ UNCHANGED <<connVars, dirVars, closeVars, now, callVars, readerVars,
                   askVars, env>>

\* time.Sleep(syncWaitDur) in the loop of WaitConnect
WaitConnectSleep(t) ==
    /\ pc[t] \in {"wc_sleep", "wc_sleep_ns"}
    /\ pc' = [pc EXCEPT ![t] = IF pc[t] = "wc_sleep_ns" THEN "wc_poll_ns" ELSE "wc_poll"]
    /\ UNCHANGED <<connVars, dirVars, closeVars, now, callVars, readerVars,
                   askVars, env>>

\* ---------------------------------------------------------- specifications
\* The frames of a peer: handshake frames, an undecodable frame, messages.
IdentityOffer == ackBinary \o <<"4", "2">>
InvalidFrame == <<"x">>
Frame(w, room, ev, err) == serializeMessage(Msg(w, "/chat", room, ev, err))
Inputs(frames, reads, ctxs, askMsgs, writeMsgs, outcomes) ==
    [frames |-> frames, reads |-> reads, ctxs |-> ctxs, askMsgs |-> askMsgs,
     writeMsgs |-> writeMsgs, outcomes |-> outcomes]
NoAsk == [a \in Askers |-> {}]
AllOutcomes == {"ok", "close", "err"}

\* The handshake and the dispatch of the read loop, against a concurrent Close.
InitHandshake ==
    InitConn({"client", "server"},
             Inputs({ackBinary, ackOKBinary, IdentityOffer, InvalidFrame,
                     Frame("", "", OnNamespaceConnect, ""), Frame("", "", "chat", "")},
                    HandshakeReads, NoAsk, NoAsk, {}, AllOutcomes),
             {Reader, "k1"})

NextHandshake ==
    \/ ReaderStart
    \/ ReadError
    \/ ReadFrame
    \/ ReaderCheckHandshake
    \/ ClientAdoptID
    \/ ReaderAcknowledge
    \/ ClientWriteAckOK
    \/ ServerOfferID
    \/ HandleQueue
    \/ ReaderQueueOrHandle
    \/ HandleLookup
    \/ HandleControl
    \/ HandleFire
    \/ HandleAfterWrite
    \/ NotifyServer
    \/ \E t \in Threads : CloseStep(t)
    \/ \E t \in Threads : WriteCheckClosed(t)
    \/ \E t \in Threads : WriteCheckNamespace(t)
    \/ \E t \in Threads : WriteText(t)

SpecHandshake == InitHandshake /\ [][NextHandshake]_vars

\* Close called from everywhere: two callers of Close, the read loop's deferred
\* Close, and the Close of a Write whose transport write fails.
InitClose ==
    InitConn({"client", "server"},
             Inputs({ackBinary, IdentityOffer}, CloseReads, NoAsk, NoAsk,
                    {Msg("", "/chat", "", OnNamespaceConnect, ""),
                     Msg("", "/chat", "", "chat", "")}, AllOutcomes),
             {Reader, "k1", "k2", "w1"})

NextClose ==
    \/ ReaderStart
    \/ ReadError
    \/ ReadFrame
    \/ ReaderCheckHandshake
    \/ ClientAdoptID
    \/ ReaderAcknowledge
    \/ ClientWriteAckOK
    \/ ServerOfferID
    \/ HandleQueue
    \/ NotifyServer
    \/ \E t \in Threads : CloseStep(t)
    \/ \E t \in Threads : WriteCheckClosed(t)
    \/ \E t \in Threads : WriteCheckNamespace(t)
    \/ \E t \in Threads : WriteText(t)
    \/ \E t \in Writers : WriterCall(t)

SpecClose == InitClose /\ [][NextClose]_vars

\* The write gate, against the read loop changing the sessions and a Close.
InitWrite ==
    InitConn({"client", "server"},
             Inputs({ackBinary, ackOKBinary, Frame("", "", OnNamespaceConnect, ""),
                     Frame("", "general", OnRoomJoin, "")},
                    WriteReads, NoAsk, NoAsk,
                    {Msg("", "/chat", "general", "chat", ""),
                     Msg("", "/chat", "", "chat", ""),
                     Msg("", "/chat", "", OnNamespaceDisconnect, ""),
                     Msg("", "/chat", "general", OnNamespaceConnect, ""),
                     Msg("", "/chat", "general", OnRoomJoin, "")}, AllOutcomes),
             {Reader, "w1", "k1"})

NextWrite ==
    \/ ReaderStart
    \/ ReadError
    \/ ReadFrame
    \/ ReaderCheckHandshake
    \/ ClientAdoptID
    \/ ReaderAcknowledge
    \/ ClientWriteAckOK
    \/ ServerOfferID
    \/ HandleQueue
    \/ ReaderQueueOrHandle
    \/ HandleLookup
    \/ HandleControl
    \/ NotifyServer
    \/ \E t \in Threads : CloseStep(t)
    \/ \E t \in Threads : WriteCheckClosed(t)
    \/ \E t \in Threads : WriteCheckNamespace(t)
    \/ \E t \in Threads : WriteCheckRoom(t)
    \/ \E t \in Threads : WriteText(t)
    \/ \E t \in Writers : WriterCall(t)

SpecWrite == InitWrite /\ [][NextWrite]_vars

\* The wait-tokens a connection of role r can generate.
Tokens(r) == {FormatToken(r, t) : t \in 0..MaxClock}
\* The handshake frame that acknowledges a connection of role r.
AckFrame(r) == IF r = "client" THEN ackBinary ELSE ackOKBinary
ConnectRequest == Msg("", "/chat", "", OnNamespaceConnect, "")
DisconnectRequest == Msg("", "/chat", "", OnNamespaceDisconnect, "")

\* Two concurrent ask calls of a client with distinct requests (a connect
\* under a cancellable context, a disconnect), the read loop receiving the
\* replies (each echoing its request's event, the disconnect ones carrying an
\* error); the transport accepts or fails the writes, and the connection
\* closes when its read fails.
InitAsk ==
    InitConn({"client"},
             Inputs({AckFrame("client")}
                      \cup {Frame(w, "", OnNamespaceConnect, "") : w \in Tokens("client")}
                      \cup {Frame(w, "", OnNamespaceDisconnect, "e") : w \in Tokens("client")},
                    AskReads,
                    [a \in Askers |-> IF a = "a1" THEN {Background, Cancellable}
                                      ELSE {Background}],
                    [a \in Askers |-> IF a = "a1" THEN {ConnectRequest}
                                      ELSE {DisconnectRequest}],
                    {}, {"ok", "err"}),
             {Reader, "a1", "a2"})

NextAsk ==
    \/ ReaderStart
    \/ ReadError
    \/ ReadFrame
    \/ ReaderCheckHandshake
    \/ ClientAdoptID
    \/ ReaderAcknowledge
    \/ ClientWriteAckOK
    \/ HandleQueue
    \/ ReaderQueueOrHandle
    \/ HandleLookup
    \/ HandleSend
    \/ HandleControl
    \/ NotifyServer
    \/ \E t \in Threads : CloseStep(t)
    \/ \E t \in Threads : WriteCheckClosed(t)
    \/ \E t \in Threads : WriteText(t)
    \/ \E a \in Askers : AskStart(a)
    \/ \E a \in Askers : AskRegister(a)
    \/ \E a \in Askers : AskWritten(a)
    \/ \E a \in Askers : AskContextDone(a)
    \/ \E a \in Askers : AskReceived(a)

SpecAsk == InitAsk /\ [][NextAsk]_vars

\* The pre-flight tests and the failed send of one ask on a server
\* connection: contexts with deadlines past the grace, within it and ahead,
\* requests the write gate passes and rejects; the connection closes when its
\* read fails or the transport reports it closed.
InitAskPre ==
    InitConn({"server"},
             Inputs({AckFrame("server")}
                      \cup {Frame(w, "", OnNamespaceConnect, "") : w \in Tokens("server")},
                    AskReads,
                    [a \in Askers |-> {Background, WithDeadline(0 - GraceTolerance - 1),
                                       WithDeadline(0 - GraceTolerance),
                                       WithDeadline(MaxClock)}],
                    [a \in Askers |-> {ConnectRequest, Msg("", "/chat", "", "chat", "")}],
                    {}, AllOutcomes),
             {Reader, "a1"})

NextAskPre ==
    \/ ReaderStart
    \/ ReadError
    \/ ReadFrame
    \/ ReaderCheckHandshake
    \/ ReaderAcknowledge
    \/ HandleQueue
    \/ ReaderQueueOrHandle
    \/ HandleLookup
    \/ HandleSend
    \/ HandleControl
    \/ NotifyServer
    \/ \E t \in Threads : CloseStep(t)
    \/ \E t \in Threads : WriteCheckClosed(t)
    \/ \E t \in Threads : WriteCheckNamespace(t)
    \/ \E t \in Threads : WriteText(t)
    \/ \E a \in Askers : AskStart(a)
    \/ \E a \in Askers : AskRegister(a)
    \/ \E a \in Askers : AskWritten(a)
    \/ \E a \in Askers : AskContextDone(a)
    \/ \E a \in Askers : AskReceived(a)

SpecAskPre == InitAskPre /\ [][NextAskPre]_vars

\* A Connect and a WaitConnect polling while the read loop runs the handshake
\* and a Close is called.
InitWait ==
    InitConn({"client", "server"},
             Inputs({ackOKBinary, IdentityOffer, Frame("", "", OnNamespaceConnect, "")},
                    CloseReads, NoAsk, NoAsk, {}, AllOutcomes),
             {Reader, "cn1", "wc1", "k1"})

NextWait ==
    \/ ReaderStart
    \/ ReadError
    \/ ReadFrame
    \/ ReaderCheckHandshake
    \/ ClientAdoptID
    \/ ReaderAcknowledge
    \/ ClientWriteAckOK
    \/ HandleQueue
    \/ ReaderQueueOrHandle
    \/ HandleLookup
    \/ HandleControl
    \/ NotifyServer
    \/ \E t \in Threads : CloseStep(t)
    \/ \E t \in Connectors : ConnectPoll(t)
    \/ \E t \in Connectors : ConnectSleep(t)
    \/ \E t \in WaitConnectors : WaitConnectPoll(t)
    \/ \E t \in WaitConnectors : WaitConnectSleep(t)

\* Every goroutine that can take a step of its own is scheduled: the callers
\* of Close, Connect and WaitConnect, the notifying goroutine, and the read
\* loop between two reads. What the socket returns, and when, is the peer's.
FairWait ==
    /\ \A t \in Closers \cup {Reader} : WF_vars(CloseStep(t))
    /\ WF_vars(NotifyServer)
    /\ \A t \in Connectors : WF_vars(ConnectPoll(t)) /\ WF_vars(ConnectSleep(t))
    /\ \A t \in WaitConnectors :
         WF_vars(WaitConnectPoll(t)) /\ WF_vars(WaitConnectSleep(t))
    /\ WF_vars(ReaderStart \/ ReaderCheckHandshake \/ ClientAdoptID
                 \/ ReaderAcknowledge \/ ClientWriteAckOK \/ HandleQueue
                 \/ ReaderQueueOrHandle \/ HandleLookup \/ HandleControl)

SpecWait == InitWait /\ [][NextWait]_vars /\ FairWait

\* ------------------------------------------------------------ claims: ask
\* C4: of two ask calls with distinct requests, both written and both
\* waiting, the reply to one call's request (a frame read after that request
\* was written, carrying that call's token and echoing its event) is never
\* delivered to the other call.
C4_NoCrossDelivery ==
    [][\A a \in Askers : \A o \in Askers \ {a} :
         (/\ pc[a] = "a_select" /\ pc'[a] = "a_recv"
          /\ pc[o] = "a_select"
          /\ hret = "r_live" /\ nread > wroteAt[o] /\ nread > wroteAt[a]
          /\ amsg[a].Event # amsg[o].Event)
         => ~(recv'[a].wait = tok[o] /\ recv'[a].Event = amsg[o].Event)]_vars

\* C5 as stated: once its request is written and the acknowledged read loop
\* has then read a frame carrying its token, an ask call returns that frame
\* and nothing else: it does not return on its context while that frame is
\* the read loop's current frame.
C5_Original ==
    [][\A a \in Askers :
         (pc[a] = "a_select" /\ pc'[a] = "done")
         => ~(/\ isAcknowledged /\ ~IsClosed
              /\ nread > wroteAt[a] /\ deserializeMessage(b).wait = tok[a])]_vars

\* C5 amended: an ask call that receives a message on its reply channel
\* returns exactly that message, which is the frame the read loop found the
\* call's token in, with the error the message carries (none if it carries
\* none) as its own; and at its return the token is not in the Wait Registry.
C5_ReplyInv ==
    \A a \in Askers :
      result[a].kind = "reply" =>
        /\ result[a].msg = recv[a]
        /\ result[a].err = recv[a].Err
        /\ recv[a].wait = tok[a]
        /\ serializeMessage(recv[a]) \in env.frames
        /\ WriteAndWait(result[a]) = recv[a]
        /\ wio[a] /\ wres[a]

C5_ReplyAct ==
    \A a \in Askers :
      /\ (pc[a] = "a_select" /\ pc'[a] = "a_recv")
         => (pc[Reader] = "h_send" /\ recv'[a] = hmsg /\ hmsg.wait = tok[a])
      /\ (pc[a] = "a_recv" /\ pc'[a] = "done")
         => (result'[a].kind = "reply" /\ \A e \in waitingMessages' : e[1] # tok[a])

\* C5, amended: the reply an ask call receives is the reply it returns, and
\* its token has left the registry when it returns.
C5_ReplyRoundTrip == []C5_ReplyInv /\ [][C5_ReplyAct]_vars

\* The disconnect request got its own reply, which carries an error, and the
\* registry holds its token no more.
C5_Witness ==
    /\ result["a2"].kind = "reply"
    /\ result["a2"].err = "e"
    /\ result["a2"].msg.Event = amsg["a2"].Event
    /\ tok["a1"] # tok["a2"]
    /\ \A e \in waitingMessages : e[1] # tok["a2"]

\* C6: an ask call whose send failed leaves no entry of its own in the Wait
\* Registry.
C6_NoEntryLeft ==
    \A a \in Askers :
      result[a].kind = "errwrite" => <<tok[a], a>> \notin waitingMessages

\* C7: ask on a closed connection returns the write-closed error, and ask
\* with a deadline more than the grace in the past returns deadline-exceeded,
\* both without a transport write and without a registry entry.
C7_PreflightInv ==
    \A a \in Askers :
      result[a].kind \in {"closed", "deadline"} =>
        /\ pc[a] = "done"
        /\ ~wio[a]
        /\ wseen[a] = NotSeen
        /\ \A e \in waitingMessages : e[2] # a
        /\ result[a].err = IF result[a].kind = "closed" THEN "write closed"
                           ELSE "deadline exceeded"

C7_PreflightAct ==
    \A a \in Askers :
      (pc[a] = "a_call" /\ pc'[a] # "a_call") =>
        /\ IsClosed => (pc'[a] = "done" /\ result'[a].kind = "closed"
                          /\ UNCHANGED waitingMessages)
        /\ (~IsClosed /\ ctx'[a].kind = "deadline"
              /\ ctx'[a].d + GraceTolerance < now')
             => (pc'[a] = "done" /\ result'[a].kind = "deadline"
                   /\ UNCHANGED waitingMessages)

\* C7: ask rejects a closed connection and a deadline past the grace before
\* it registers or writes anything.
C7_Preflight == []C7_PreflightInv /\ [][C7_PreflightAct]_vars

\* The call was rejected for its deadline, two units past, on the open
\* connection.
C7_Witness ==
    /\ result["a1"].kind = "deadline"
    /\ ctx["a1"].d = 0 - GraceTolerance - 1
    /\ ~IsClosed

\* ---------------------------------------------------------- claims: Close
\* C2: however many Close calls run (those of the callers, the read loop's
\* deferred one, the one a failed Write makes), each teardown action runs at
\* most once, and exactly once when the winning call has returned; closed
\* goes from unset to set and never back; IsClosed is true once any Close
\* call has returned.
C2_TeardownInv ==
    /\ \A x \in TeardownActions : teardown[x] <= 1
    /\ serverDisconnect <= 1
    /\ closeReturned => IsClosed
    /\ sockClosed => \A x \in TeardownActions : teardown[x] = 1
    /\ notifyG = "done" => serverDisconnect = (IF role = "server" THEN 1 ELSE 0)
    /\ \A t \in Closers : pc[t] = "done" => once = 1

\* C2: the teardown of Close runs at most once and once set, the closed flag
\* stays set.
C2_CloseOnce == []C2_TeardownInv /\ [][once = 1 => once' = 1]_vars

\* Both callers of Close and the read loop's deferred Close have returned, a
\* Write ran into a transport error, and every teardown action has run once.
C2_Witness ==
    /\ pc["k1"] = "done" /\ pc["k2"] = "done" /\ pc[Reader] = "done"
    /\ pc["w1"] = "done" /\ wio["w1"] /\ ~wres["w1"]
    /\ nread > 0
    /\ \A x \in TeardownActions : teardown[x] = 1
    /\ notifyG = "done"

\* ---------------------------------------------------------- claims: Write
\* What Write has to find for a message, in the words of the claim.
ClaimNeedsNamespace(msg) == msg.Event \notin {OnNamespaceConnect, OnNamespaceDisconnect}
ClaimNeedsRoom(msg) == msg.Room # "" /\ msg.Event \notin {OnRoomJoin, OnRoomLeave}

Range(s) == {s[i] : i \in 1..Len(s)}
Increasing(s) == \A i \in 1..Len(s) - 1 : s[i] < s[i + 1]
ClosePcs == {"c_cas", "c_closeCh", "c_force", "c_clear", "c_ack", "c_go", "c_sock"}
WritePcs == {"w_chk", "w_ns", "w_room", "w_io"}
\* The read loop is inside handleMessage.
InHandle ==
    \/ pc[Reader] \in {"h_lookup", "h_send", "h_route", "h_after"} \cup WritePcs
    \/ pc[Reader] \in ClosePcs /\ cret[Reader] = "h_after"
\* The read loop is inside handleQueue.
Draining == pc[Reader] = "r_drain" \/ (InHandle /\ hret = "r_drain")
ReaderMoves == pc'[Reader] # pc[Reader]

\* The frames handleQueue has taken so far are the last ones passed to
\* handleMessage, in the order of the queue.
ReplayedInOrder ==
    Draining =>
      /\ qi <= Len(queue)
      /\ qi <= Len(handled)
      /\ \A i \in 1..qi : handled[Len(handled) - qi + i] = queue[i].idx

\* C1: the valid non-handshake frames read while Unacknowledged are passed to
\* handleMessage exactly once each, in arrival order, when the acknowledging
\* frame is processed, and before any frame read after it: the frames passed
\* to handleMessage are in strictly increasing arrival order (no frame twice,
\* no later frame before an earlier one), the queue holds the buffered frames
\* in arrival order, none of them handled before its replay, and the replay
\* takes them in the order of the queue.
C1_ReplayInOrderOnce ==
    /\ Increasing(handled)
    /\ Increasing([i \in 1..Len(queue) |-> queue[i].idx])
    /\ \A i \in 1..Len(queue) :
         /\ queue[i].idx <= nread
         /\ (~Draining \/ i > qi) => queue[i].idx \notin Range(handled)
    /\ ReplayedInOrder

\* Frames 1 and 2 were buffered, frame 3 acknowledged and replayed them, and
\* frame 4 was handled after them.
C1_Witness ==
    /\ handled = <<1, 2, 4>>
    /\ pc[Reader] = "r_read"
    /\ isAcknowledged

\* C8: an Unacknowledged client reading "ack"+s sets its id to s, then sets
\* acknowledged, then writes "ack_ok", then replays the queue in order, and
\* never dispatches the handshake frame itself.
C8_ClientOrderInv ==
    (IsClient /\ trace # <<>>) =>
      /\ Len(trace) <= 3
      /\ trace[1].e = "id" /\ ackBinary \o trace[1].v = b /\ id = trace[1].v
      /\ Len(trace) >= 2 => trace[2] = Effect("ack", <<>>)
      /\ Len(trace) >= 3 => trace[3] = Effect("write", ackOKBinary)
      /\ (Draining \/ pc[Reader] = "r_read") => Len(trace) = 3
      /\ pc[Reader] = "r_read" => queue = <<>>
      /\ nread \notin Range(handled)
      /\ ReplayedInOrder

C8_ClientOrderAct ==
    (IsClient /\ pc[Reader] = "r_chk1" /\ ReaderMoves /\ acknowledged = 0
       /\ Len(b) >= 3 /\ SubSeq(b, 1, 3) = <<"a", "c", "k">>)
    => pc'[Reader] = "r_id"

\* C8: the client handshake adopts the id, acknowledges, then writes ack_ok,
\* in that order.
C8_ClientHandshake == []C8_ClientOrderInv /\ [][C8_ClientOrderAct]_vars

\* The client adopted the id 42, acknowledged, wrote ack_ok and replayed the
\* two frames it had buffered.
C8_Witness ==
    /\ IsClient
    /\ Len(trace) = 3
    /\ id = <<"4", "2">>
    /\ handled = <<1, 2>>
    /\ pc[Reader] = "r_read"

\* C9: an Unacknowledged server reading the bare tag writes "ack"+id and stays
\* Unacknowledged with its queue untouched; it becomes Acknowledged, and
\* replays, only on a longer tag-prefixed frame.
C9_ServerInv ==
    (~IsClient /\ trace # <<>>) =>
      IF b = <<"a", "c", "k">>
      THEN trace = <<Effect("write", <<"a", "c", "k">> \o id)>> /\ ~Draining
      ELSE /\ Len(b) > 3 /\ SubSeq(b, 1, 3) = <<"a", "c", "k">>
           /\ trace = <<Effect("ack", <<>>)>>
           /\ nread \notin Range(handled)
           /\ ReplayedInOrder

C9_ServerAct ==
    /\ (~IsClient /\ b = <<"a", "c", "k">> /\ pc[Reader] \in {"r_chk1", "r_offer"}
          /\ ReaderMoves)
       => /\ UNCHANGED <<acknowledged, queue, handled, id>>
          /\ (pc[Reader] = "r_chk1" /\ acknowledged = 0) => pc'[Reader] = "r_offer"
          /\ pc[Reader] = "r_offer" => pc'[Reader] = "r_read"
    /\ (~IsClient /\ acknowledged = 0 /\ acknowledged' = 1)
       => Len(b) > 3 /\ SubSeq(b, 1, 3) = <<"a", "c", "k">>
    /\ (~IsClient /\ pc[Reader] = "r_chk1" /\ ReaderMoves /\ acknowledged = 0
          /\ b = <<"a", "c", "k", "_", "o", "k">>)
       => pc'[Reader] = "r_ack"

\* C9: the server handshake offers its id on the bare tag and acknowledges
\* on any other tagged frame, writing nothing.
C9_ServerHandshake == []C9_ServerInv /\ [][C9_ServerAct]_vars

\* The server buffered frame 1, and the handshake-complete frame read third
\* acknowledged it and replayed the buffer.
C9_Witness ==
    /\ ~IsClient
    /\ nread = 3
    /\ b = ackOKBinary
    /\ handled = <<1>>
    /\ isAcknowledged
    /\ pc[Reader] = "r_read"

\* C10: whenever the dispatcher returns a manual-close error for a message of
\* the read loop, live or replayed, the loop terminates (its deferred Close
\* runs) after the attempt to write the error reply.
C10_ManualCloseTerminates ==
    [][(pc[Reader] = "h_after" /\ isManualCloseError(ferr) /\ ReaderMoves
          /\ ~IsClosed)
         => pc'[Reader] = "c_cas"]_vars

\* ------------------------------------------------- claims: Write and Close
\* C11: a Write whose transport write fails with a close-class error calls
\* Close before it returns, so it returns false on a closed connection; a
\* Write whose transport write fails with any other error returns false at
\* once and that step leaves the closed flag as it was.
C11_WriteErrorInv ==
    \A t \in Writers :
      (pc[t] = "done" /\ werr[t] = "close") => (~wres[t] /\ IsClosed)

C11_WriteErrorAct ==
    \A t \in Threads :
      (pc[t] = "w_io" /\ pc'[t] # "w_io") =>
        /\ werr'[t] = "close" => (pc'[t] = "c_cas" /\ cret'[t] = wret[t] /\ ~wres'[t])
        /\ werr'[t] = "err" => (pc'[t] = wret[t] /\ ~wres'[t] /\ once' = once)

\* C11: close-class write errors close the connection before Write returns
\* false, other write errors do not touch the closed flag.
C11_WriteError == []C11_WriteErrorInv /\ [][C11_WriteErrorAct]_vars

\* The Write met a close-class error and has returned, and it is its own
\* Close that closed the connection: nobody else has called Close yet.
C11_Witness ==
    /\ pc["w1"] = "done" /\ werr["w1"] = "close" /\ ~wres["w1"]
    /\ pc["k1"] = "c_cas" /\ pc["k2"] = "c_cas" /\ pc[Reader] \notin ClosePcs
    /\ pc[Reader] # "done"
    /\ IsClosed

\* --------------------------------------------- claims: read loop and Close
\* The read loop is at the statement of handleMessage that hands the message
\* over: the send to a waiting ask call, a handler of the session directory,
\* or a namespace event.
AtDispatch ==
    \/ pc[Reader] = "h_send"
    \/ pc[Reader] = "h_route"
         /\ (hmsg.Event \in ControlEvents \/ hmsg.Namespace \in nsConnected)

\* C12: at every step by which handleMessage dispatches a message (buffered
\* or live), the acknowledged flag is set.
C12_DispatchAcknowledged ==
    [][(AtDispatch /\ ReaderMoves) => isAcknowledged]_vars

\* ------------------------------------------------- claims: the wait-tokens
\* The ask call has generated its token.
HasToken(a) == tok[a] # ""

\* C13: two ask calls on the connection never hold the same wait-token, and
\* no registration replaces the entry of another call that is still pending.
C13_UniqueTokens ==
    /\ \A a \in Askers : \A o \in Askers \ {a} :
         (HasToken(a) /\ HasToken(o)) => tok[a] # tok[o]
    /\ \A e \in waitingMessages :
         \A o \in Askers \ {e[2]} :
           pc[o] \in {"a_wrote", "a_select"} \cup WritePcs => tok[o] # e[1]

\* ------------------------------------------------- claims: the buffer
\* C14: handleQueue runs to its end at most once in the life of the
\* connection, and once it has, no frame is appended to the queue and
\* handleQueue is not entered again.
C14_DrainedOnce ==
    /\ [](drains <= 1)
    /\ [][drains >= 1 =>
            /\ Len(queue') <= Len(queue)
            /\ (pc'[Reader] = "r_drain" => Draining)]_vars

\* ------------------------------------------------- claims: handleMessage
\* The registry holds an entry for the token of the message in hand.
Correlated == hmsg.wait # "" /\ \E e \in waitingMessages : e[1] = hmsg.wait

\* What handleMessage does with a message it found an entry for: it sends it
\* on the entry's channel, and then returns true without any handler or event.
C15_DeliverOnly ==
    /\ (pc[Reader] = "h_lookup" /\ ReaderMoves /\ Correlated)
         => /\ pc'[Reader] = "h_send"
            /\ <<hmsg.wait, hch'>> \in waitingMessages
    /\ (pc[Reader] = "h_send" /\ ReaderMoves)
         => /\ pc[hch] = "a_select" /\ pc'[hch] = "a_recv"
            /\ recv'[hch] = hmsg
            /\ pc'[Reader] = IF hret = "r_drain" THEN "r_drain" ELSE "r_read"
            /\ UNCHANGED <<nsConnected, rooms, ferr, wio, wmsg>>

\* What handleMessage does with a message it found no entry for: it goes by
\* the event name, to the handler of the session directory or to the event.
C15_RouteByEvent ==
    /\ (pc[Reader] = "h_lookup" /\ ReaderMoves /\ ~Correlated)
         => pc'[Reader] = "h_route"
    /\ (pc[Reader] = "h_route" /\ ReaderMoves)
         => /\ UNCHANGED recv
            /\ isConnect(hmsg) => hmsg.Namespace \in nsConnected'
            /\ isDisconnect(hmsg) => hmsg.Namespace \notin nsConnected'
            /\ hmsg.Event \notin ControlEvents => UNCHANGED <<nsConnected, rooms>>

\* C15: a frame whose wait-token matches a registry entry is delivered to
\* that entry's channel and to nothing else, whatever its event name; a frame
\* without token or without entry is routed by its event name.
C15_ReplyCorrelated ==
    /\ [](pc[Reader] = "h_send" => hmsg.wait # "")
    /\ [][C15_DeliverOnly /\ C15_RouteByEvent]_vars

\* A namespace connect frame carrying a registered token was delivered to the
\* ask call and connected no namespace.
C15_Witness ==
    /\ pc["a1"] = "a_recv"
    /\ isConnect(recv["a1"])
    /\ recv["a1"].wait = tok["a1"]
    /\ isAcknowledged
    /\ nsConnected = {}

\* ------------------------------------------- claims: Connect, WaitConnect
\* C16: once a Close has returned, a Connect waiting for the acknowledgement
\* and a WaitConnect whose context never ends each eventually return.
C16_WaitersReleased ==
    /\ closeReturned ~> pc["cn1"] = "done"
    /\ closeReturned ~> pc["wc1"] = "done"

\* ------------------------------------------- claims: ask against Close
\* The ask call waits for a reply that cannot come: it has no entry in the
\* registry and the read loop is not at the send to it.
Stranded(a) ==
    /\ pc[a] = "a_select"
    /\ <<tok[a], a>> \notin waitingMessages
    /\ ~(pc[Reader] = "h_send" /\ hch = a)

C17_ClearedInv ==
    \A a \in Askers :
      (teardown["clear"] = 1 /\ pc[a] = "a_select") => <<tok[a], a>> \notin waitingMessages

C17_NotWokenAct ==
    /\ \A t \in Threads :
         (pc[t] = "c_clear" /\ pc'[t] # "c_clear")
         => /\ waitingMessages' = {}
            /\ \A a \in Askers \ {t} : pc'[a] = pc[a] /\ result'[a] = result[a]
    /\ \A a \in Askers :
         Stranded(a)
         => \/ Stranded(a)'
            \/ pc'[a] = "done" /\ result'[a].kind = "ctx" /\ ctx[a].kind # "never"

\* C17: Close empties the Wait Registry and wakes no ask call; an ask call
\* left waiting without entry, its reply not being handed over, leaves its
\* wait only by its own context, and never if that context never ends.
C17_PendingNotWoken == []C17_ClearedInv /\ [][C17_NotWokenAct]_vars

\* The connection is closed and its read loop gone, and an ask call under a
\* context that never ends is still waiting, without entry.
C17_Witness ==
    /\ Stranded("a1")
    /\ ctx["a1"].kind = "never"
    /\ pc[Reader] = "done"
    /\ sockClosed
    /\ teardown["clear"] = 1

\* C18: the read loop is never left at the send of a reply-correlated frame
\* with nobody to receive it: whenever it is at ch <- msg with a frame read
\* after the request was written, the ask call that owns the channel is in
\* its select, and has neither returned nor taken an earlier frame.
C18_SendNeverStuck ==
    (/\ pc[Reader] = "h_send" /\ hret = "r_live"
     /\ wio[hch] /\ wres[hch] /\ nread > wroteAt[hch])
    => pc[hch] \notin {"done", "a_recv"}

\* C19: once Close has completed (its last teardown statement has closed the
\* socket), no step sets the acknowledged flag or changes the id, and the
\* read loop dispatches no message. (A handshake reply attempted on the
\* closed socket fails and is not counted.)
C19_InertAfterClose ==
    [][sockClosed
         => /\ acknowledged' <= acknowledged
            /\ id' = id
            /\ ReaderMoves => ~AtDispatch]_vars

\* C20: an ask call that has returned, with a reply or on its context, has
\* left no entry of its own in the Wait Registry; so the registry of a
\* closed connection whose ask calls have all returned so is empty.
C20_NoOrphanEntry ==
    /\ \A a \in Askers :
         (pc[a] = "done" /\ result[a].kind \in {"reply", "ctx"})
         => <<tok[a], a>> \notin waitingMessages
    /\ (sockClosed /\ \A a \in Askers : pc[a] = "done" /\ result[a].kind \in {"reply", "ctx"})
         => waitingMessages = {}

====
